---- MODULE Spec2Model ----
(***************************************************************************)
(* Swim-metronome generator: the metronome loop, the announcement          *)
(* scheduler, the voice mixer and the voice-generation pipeline of main.   *)
(*                                                                         *)
(* Units.  pydub positions and lengths are milliseconds, so every track    *)
(* position below is an integer number of ms.  The running float           *)
(* current_time_ms of generate_metronome is the rational num / |bpm|       *)
(* together with the sign of its floating-point rounding error (eps),      *)
(* which is only tracked where it can change int() or a comparison: when   *)
(* the exact value is a whole number and 60 / bpm is not a binary          *)
(* fraction.  Announcement times (seconds, floats in the code) are kept in  *)
(* units of 1/10000 s, which is an integer for the integer distances,      *)
(* paces and durations of the model, again with the sign of the rounding   *)
(* error of the double product where the exact value is a whole number of  *)
(* seconds.  The signs are those of IEEE-754 double arithmetic evaluated   *)
(* on the code's expressions for the tempos and paces of the model.        *)
(***************************************************************************)
EXTENDS Integers, Sequences, FiniteSets, TLC

VARIABLES
    \* ---- AudioGenerator.generate_metronome
    m_pc,               \* "start" | "loop" | "done" | "error"
    bpm,
    beats_per_measure,
    duration_ms,        \* duration_seconds * 1000
    accent_first,
    current_time_ms,    \* [num |-> n, eps |-> e]: n / |bpm| ms, rounding sign e
    beat_count,
    total_beats,
    metronome,          \* NoTrack, or [len |-> ms, clicks |-> <<[position, accent]>>]
    \* ---- main, step 4, and AudioGenerator.calculate_announcement_times
    s_pc,               \* "warmup" | "calc" | "loop" | "returned" | "sort" | "done"
    warmup_time,        \* seconds
    warmup_announcements, \* config['audio']['warmup_announcements']: <<[time, text]>>
    ann_configs,        \* config['voice']['announcements']: <<[interval]>>
    cfg_idx,            \* the ann_config main is at
    time_per_100m,
    pool_length,
    swim_duration,      \* seconds
    announcements,      \* main's list
    ann_list,           \* calculate_announcement_times' local list
    distance,
    \* ---- AudioGenerator.mix_audio_with_voice
    x_pc,               \* "input" | "mixed"
    base_audio,         \* samples, one per millisecond
    voice_files_map,    \* text -> file path
    mix_announcements,  \* <<[time, text, distance]>>, text and distance optional
    voice_volume,       \* in tenths
    mix_result,         \* [status, audio, mixed]
    \* ---- main, steps 5-7, and BaseTTSService.generate_multiple_speeches
    p_pc,               \* "voice" | "collect" | "unwind" | "mix" | "export" | "done" | "aborted"
    voice_enabled,      \* config['voice']['enabled']
    tts_ok,             \* get_tts_from_config succeeds
    texts,              \* all_texts_list
    futures,            \* index -> "queued" | "running" | "ok" | "failed"
    yielded,            \* the futures as_completed has handed to the loop
    result,             \* generate_multiple_speeches' dict, text -> path
    written,            \* the files the workers have written
    main_voice_map,     \* main's voice_files_map
    mix_called,
    exported

metroVars == <<m_pc, bpm, beats_per_measure, duration_ms, accent_first,
               current_time_ms, beat_count, total_beats, metronome>>

schedVars == <<s_pc, warmup_time, warmup_announcements, ann_configs, cfg_idx,
               time_per_100m, pool_length, swim_duration, announcements,
               ann_list, distance>>

mixVars == <<x_pc, base_audio, voice_files_map, mix_announcements,
             voice_volume, mix_result>>

pipeVars == <<p_pc, voice_enabled, tts_ok, texts, futures, yielded, result,
              written, main_voice_map, mix_called, exported>>

vars == <<metroVars, schedVars, mixVars, pipeVars>>

notMetroVars == <<schedVars, mixVars, pipeVars>>
notSchedVars == <<metroVars, mixVars, pipeVars>>
notMixVars == <<metroVars, schedVars, pipeVars>>
notPipeVars == <<metroVars, schedVars, mixVars>>

----------------------------------------------------------------------------
\* Bounds of the model.

\* Largest number of beats a terminating generation of the model places.
MaxBeats == 10
\* Iterations explored of a generation whose loop never ends.
LoopCap == 102

\* Program constants.
MsPerMinute == 60000
ClickMs == 50
ProgressEvery == 100

BpmSet == {-60, 0, 9, 41, 60, 63, 120, 120000}
BeatsPerMeasureSet == {-4, 0, 1, 4}
DurationMsSet == {-1000, 0, 3, 500, 1000, 4000, 5000, 60000}

NoTrack == [len |-> -1, clicks |-> <<>>]

Abs(x) == IF x < 0 THEN -x ELSE x

\* Python int(): truncation toward zero of the rational n / d (d > 0).
TruncDiv(n, d) == IF n >= 0 THEN n \div d ELSE -((-n) \div d)

RECURSIVE Gcd(_, _)
Gcd(a, b) == IF b = 0 THEN a ELSE Gcd(b, a % b)

RECURSIVE IsPowerOfTwo(_)
IsPowerOfTwo(n) == IF n = 1 THEN TRUE
                   ELSE IF n % 2 = 1 THEN FALSE ELSE IsPowerOfTwo(n \div 2)

\* (60 / bpm) * 1000 and its multiples are exact doubles when 60 / bpm is a
\* binary fraction; otherwise the accumulated sum carries a rounding error.
FloatExact(b) == IsPowerOfTwo(Abs(b) \div Gcd(60, Abs(b)))

\* <<bpm, k>>: the double sum of k intervals (60 / bpm) * 1000 lies just
\* below, or just above, its exact value, which is a whole number of ms.
\* The tempos of BpmSet, the first 21 sums.
SumsRoundedBelow == {<<9, 9>>}

SumsRoundedAbove == {<<9, 15>>, <<9, 18>>, <<9, 21>>}

\* The sign of the rounding error of current_time_ms after k additions.
Rounding(b, k) ==
    IF <<b, k>> \in SumsRoundedBelow THEN -1
    ELSE IF <<b, k>> \in SumsRoundedAbove THEN 1
    ELSE 0

\* The interval truncated to whole milliseconds before it is accumulated.
BeatIntervalTruncated(b) ==
    IF b > 0 THEN (MsPerMinute \div b) * b
    ELSE -((MsPerMinute \div (-b)) * (-b))

\* beat_interval_ms = (60 / bpm) * 1000, as a numerator over |bpm|.
BeatIntervalNum(b) == IF b > 0 THEN MsPerMinute ELSE -MsPerMinute

\* int(current_time_ms): the overlay position.
Position(t, b) ==
    LET d == Abs(b)
        q == TruncDiv(t.num, d)
    IN  IF t.num % d = 0 /\ t.num > 0 /\ t.eps < 0 THEN q - 1
        ELSE IF t.num % d = 0 /\ t.num < 0 /\ t.eps > 0 THEN q + 1
        ELSE q

\* current_time_ms < duration_seconds * 1000
BeforeEnd(t, b, dms) ==
    LET d == Abs(b)
    IN  \/ t.num < dms * d
        \/ t.num = dms * d /\ t.eps < 0

\* The first beat accented whatever accent_first says.
IsAccentFirstAlways(count, per_measure, first) ==
    count = 0 \/ (first /\ count % Abs(per_measure) = 0)

\* is_accent = (beat_count % beats_per_measure == 0) if accent_first else False
\* (Python's % by a negative divisor is zero exactly when the magnitude divides)
IsAccent(count, per_measure, first) ==
    IF first THEN count % Abs(per_measure) = 0 ELSE FALSE

\* total_beats = int(duration_seconds * 1000 / beat_interval_ms)
TotalBeats(b, dms) == TruncDiv(dms * b, MsPerMinute)

\* AudioSegment.silent(duration): a negative duration gives an empty segment.
Silent(dms) == [len |-> IF dms < 0 THEN 0 ELSE dms, clicks |-> <<>>]

\* metronome.overlay(click, position=...): the track keeps its length.
Overlay(track, pos, accent) ==
    [track EXCEPT !.clicks = Append(@, [position |-> pos, accent |-> accent])]

----------------------------------------------------------------------------
\* generate_metronome

MetroInputs ==
    /\ bpm \in BpmSet
    /\ beats_per_measure \in BeatsPerMeasureSet
    /\ duration_ms \in DurationMsSet
    /\ accent_first \in BOOLEAN
    /\ bpm > 0 => duration_ms <= (MaxBeats * MsPerMinute) \div bpm
    /\ bpm < 0 => FloatExact(bpm)

MetroIdle ==
    /\ m_pc = "idle"
    /\ bpm = 60 /\ beats_per_measure = 4 /\ duration_ms = 0
    /\ accent_first = TRUE
    /\ current_time_ms = [num |-> 0, eps |-> 0]
    /\ beat_count = 0 /\ total_beats = 0
    /\ metronome = [len |-> -1, clicks |-> <<>>]

MetroInit ==
    /\ MetroInputs
    /\ m_pc = "start"
    /\ current_time_ms = [num |-> 0, eps |-> 0]
    /\ beat_count = 0
    /\ total_beats = 0
    /\ metronome = NoTrack

\* Line 67 with bpm = 0: ZeroDivisionError before anything is allocated.
MetroIntervalError ==
    /\ m_pc = "start"
    /\ bpm = 0
    /\ m_pc' = "error"
    /\ UNCHANGED <<bpm, beats_per_measure, duration_ms, accent_first,
                   current_time_ms, beat_count, total_beats, metronome,
                   notMetroVars>>

\* Lines 67-80: the interval, the two clicks, the silent track, total_beats.
MetroStart ==
    /\ m_pc = "start"
    /\ bpm # 0
    /\ metronome' = Silent(duration_ms)
    /\ total_beats' = TotalBeats(bpm, duration_ms)
    /\ m_pc' = "loop"
    /\ UNCHANGED <<bpm, beats_per_measure, duration_ms, accent_first,
                   current_time_ms, beat_count, notMetroVars>>

ProgressDue == beat_count > 0 /\ beat_count % ProgressEvery = 0

\* Line 85: progress = (beat_count / total_beats) * 100 with total_beats = 0.
MetroProgressError ==
    /\ m_pc = "loop"
    /\ BeforeEnd(current_time_ms, bpm, duration_ms)
    /\ ProgressDue /\ total_beats = 0
    /\ m_pc' = "error"
    /\ UNCHANGED <<bpm, beats_per_measure, duration_ms, accent_first,
                   current_time_ms, beat_count, total_beats, metronome,
                   notMetroVars>>

\* Line 88: beat_count % beats_per_measure with beats_per_measure = 0.
MetroAccentError ==
    /\ m_pc = "loop"
    /\ BeforeEnd(current_time_ms, bpm, duration_ms)
    /\ ~(ProgressDue /\ total_beats = 0)
    /\ accent_first /\ beats_per_measure = 0
    /\ m_pc' = "error"
    /\ UNCHANGED <<bpm, beats_per_measure, duration_ms, accent_first,
                   current_time_ms, beat_count, total_beats, metronome,
                   notMetroVars>>

\* Lines 82-98: one iteration of the loop.
MetroBeat ==
    /\ m_pc = "loop"
    /\ beat_count < LoopCap
    /\ BeforeEnd(current_time_ms, bpm, duration_ms)
    /\ ~(ProgressDue /\ total_beats = 0)
    /\ ~(accent_first /\ beats_per_measure = 0)
    /\ metronome' = Overlay(metronome, Position(current_time_ms, bpm),
                            IsAccent(beat_count, beats_per_measure, accent_first))
    /\ current_time_ms' = [num |-> current_time_ms.num + BeatIntervalNum(bpm),
                            eps |-> Rounding(bpm, beat_count + 1)]
    /\ beat_count' = beat_count + 1
    /\ UNCHANGED <<m_pc, bpm, beats_per_measure, duration_ms, accent_first,
                   total_beats, notMetroVars>>

\* Lines 82, 100: the loop condition fails and the track is returned.
MetroReturn ==
    /\ m_pc = "loop"
    /\ ~BeforeEnd(current_time_ms, bpm, duration_ms)
    /\ m_pc' = "done"
    /\ UNCHANGED <<bpm, beats_per_measure, duration_ms, accent_first,
                   current_time_ms, beat_count, total_beats, metronome,
                   notMetroVars>>

MetroNext ==
    \/ MetroIntervalError
    \/ MetroStart
    \/ MetroProgressError
    \/ MetroAccentError
    \/ MetroBeat
    \/ MetroReturn

----------------------------------------------------------------------------
\* main, step 4 (announcement times) and calculate_announcement_times

\* Bounds of the configuration.
MaxWarmupAnns == 1
MaxAnnConfigs == 2
\* Entries explored of a list whose loop never ends (every list of a loop
\* that ends is shorter).
CalcCap == 8

\* Time units per second.
TimeUnits == 10 * 1000

WarmupTimeSet == {0, 5}
WarmupOffsetSet == {0, 3, 10}
IntervalSet == {25, 100}
PaceSet == {90, 105, 115}
PoolLengthSet == {25, 50}
SwimDurationSet == {60, 105, 115, 120}

\* An absent dictionary entry.
None == "None"

SeqsUpTo(S, n) == UNION {[1..k -> S] : k \in 0..n}

\* distance / pool_length and distance / 100: true division, kept as a ratio.
Ratio(n, d) == [num |-> n, den |-> d]

\* f"{distance}" followed by the metre sign of the format string; "m" stands
\* for the sign.
DistanceText(d) == ToString(d) \o "m"

\* The distance left where it is.
NextDistanceStuck(d, by) == d

\* Line 132: distance += interval
NextDistance(d, by) == d + by

\* The loop's exit test with the boundary let through.
CalcStopsLate(time, eps, total_duration) == time > total_duration

\* Line 122: if time >= total_duration: break
\* (a product rounded just below a whole total_duration is still below it)
CalcStops(time, eps, total_duration) ==
    \/ time > total_duration
    \/ time = total_duration /\ eps >= 0

\* Line 121: time = distance * time_per_meter, time_per_meter = time_per_100m / 100
CalcTime(d, per_100m) == d * per_100m * (TimeUnits \div 100)

\* <<time_per_100m, distance>>: the double product distance * (time_per_100m
\* / 100) lies just below its exact value, which is a whole number of
\* seconds.  The paces of PaceSet, distances up to 1200; no product of these
\* lies above a whole exact value.
ProductsRoundedBelow ==
    {<<115, 100>>, <<115, 200>>, <<115, 400>>, <<115, 700>>, <<115, 800>>}

\* The sign of the rounding error of time at line 121.
CalcRounding(d, per_100m) ==
    IF <<per_100m, d>> \in ProductsRoundedBelow THEN -1 ELSE 0

\* a['time'] <= b['time'] on the floats.
TimeLeq(a, b) == a.time < b.time \/ (a.time = b.time /\ a.eps <= b.eps)

RECURSIVE InsertByTime(_, _)
InsertByTime(sorted, a) ==
    IF sorted = <<>> THEN <<a>>
    ELSE IF TimeLeq(sorted[Len(sorted)], a) THEN Append(sorted, a)
    ELSE Append(InsertByTime(SubSeq(sorted, 1, Len(sorted) - 1), a),
                sorted[Len(sorted)])

\* Line 235: announcements.sort(key=lambda x: x['time']), a stable sort.
RECURSIVE SortByTime(_)
SortByTime(anns) ==
    IF anns = <<>> THEN <<>>
    ELSE InsertByTime(SortByTime(SubSeq(anns, 1, Len(anns) - 1)), anns[Len(anns)])

interval == ann_configs[cfg_idx].interval

SchedIdle ==
    /\ s_pc = "idle"
    /\ warmup_time = 0 /\ warmup_announcements = <<>> /\ ann_configs = <<>>
    /\ cfg_idx = 1 /\ time_per_100m = 105 /\ pool_length = 25
    /\ swim_duration = 0 /\ announcements = <<>> /\ ann_list = <<>>
    /\ distance = 0

SchedInit ==
    /\ s_pc = "warmup"
    /\ warmup_time \in WarmupTimeSet
    /\ warmup_announcements \in
           SeqsUpTo([time : WarmupOffsetSet, text : {"Go"}], MaxWarmupAnns)
    /\ ann_configs \in SeqsUpTo([interval : IntervalSet], MaxAnnConfigs)
    /\ time_per_100m \in PaceSet
    /\ pool_length \in PoolLengthSet
    /\ swim_duration \in SwimDurationSet
    /\ cfg_idx = 1
    /\ announcements = <<>>
    /\ ann_list = <<>>
    /\ distance = 0

AfterConfig(i) == IF i <= Len(ann_configs) THEN "calc" ELSE "sort"

\* Lines 193-208: the warmup countdown entries, at warmup_time - t.
MainWarmup ==
    /\ s_pc = "warmup"
    /\ announcements' =
           IF warmup_time > 0
           THEN [k \in 1..Len(warmup_announcements) |->
                    [time |-> (warmup_time - warmup_announcements[k].time) * TimeUnits,
                     eps |-> 0,
                     text |-> warmup_announcements[k].text,
                     distance |-> 0,
                     laps |-> None,
                     hundreds |-> None]]
           ELSE <<>>
    /\ s_pc' = AfterConfig(cfg_idx)
    /\ UNCHANGED <<warmup_time, warmup_announcements, ann_configs, cfg_idx,
                   time_per_100m, pool_length, swim_duration, ann_list, distance,
                   notSchedVars>>

\* Lines 116-119: the call of line 216 enters calculate_announcement_times.
CalcStart ==
    /\ s_pc = "calc"
    /\ ann_list' = <<>>
    /\ distance' = interval
    /\ s_pc' = "loop"
    /\ UNCHANGED <<warmup_time, warmup_announcements, ann_configs, cfg_idx,
                   time_per_100m, pool_length, swim_duration, announcements,
                   notSchedVars>>

\* Lines 121-132: one iteration that appends.
CalcAppend ==
    /\ s_pc = "loop"
    /\ Len(ann_list) < CalcCap
    /\ ~CalcStops(CalcTime(distance, time_per_100m),
                  CalcRounding(distance, time_per_100m),
                  swim_duration * TimeUnits)
    /\ ann_list' = Append(ann_list,
                          [time |-> CalcTime(distance, time_per_100m),
                           eps |-> CalcRounding(distance, time_per_100m),
                           distance |-> distance,
                           laps |-> Ratio(distance, pool_length),
                           hundreds |-> Ratio(distance, 100),
                           text |-> None])
    /\ distance' = NextDistance(distance, interval)
    /\ UNCHANGED <<s_pc, warmup_time, warmup_announcements, ann_configs, cfg_idx,
                   time_per_100m, pool_length, swim_duration, announcements,
                   notSchedVars>>

\* Lines 122-123, 134: break, return announcements.
CalcBreak ==
    /\ s_pc = "loop"
    /\ CalcStops(CalcTime(distance, time_per_100m),
                 CalcRounding(distance, time_per_100m),
                 swim_duration * TimeUnits)
    /\ s_pc' = "returned"
    /\ UNCHANGED <<warmup_time, warmup_announcements, ann_configs, cfg_idx,
                   time_per_100m, pool_length, swim_duration, announcements,
                   ann_list, distance, notSchedVars>>

\* Lines 223-232: each returned entry gets its text, is shifted by
\* warmup_time (an addition that is exact for the times of the model) and
\* appended to main's list.
MainCollect ==
    /\ s_pc = "returned"
    /\ announcements' = announcements \o
           [k \in 1..Len(ann_list) |->
               [ann_list[k] EXCEPT !.text = DistanceText(ann_list[k].distance),
                                   !.time = @ + warmup_time * TimeUnits]]
    /\ cfg_idx' = cfg_idx + 1
    /\ s_pc' = AfterConfig(cfg_idx + 1)
    /\ UNCHANGED <<warmup_time, warmup_announcements, ann_configs,
                   time_per_100m, pool_length, swim_duration, ann_list, distance,
                   notSchedVars>>

\* Line 235: the list is sorted by time; it is what main hands to the mixer.
MainSort ==
    /\ s_pc = "sort"
    /\ announcements' = SortByTime(announcements)
    /\ s_pc' = "done"
    /\ UNCHANGED <<warmup_time, warmup_announcements, ann_configs, cfg_idx,
                   time_per_100m, pool_length, swim_duration, ann_list, distance,
                   notSchedVars>>

\* calculate_announcement_times called on its own, with any interval and
\* total_duration.
CalcIntervalSet == IntervalSet \cup {-25, 0}
CalcDurationSet == SwimDurationSet \cup {0}

CalcInit ==
    /\ s_pc = "calc"
    /\ warmup_time = 0
    /\ warmup_announcements = <<>>
    /\ ann_configs \in {<<[interval |-> by]>> : by \in CalcIntervalSet}
    /\ time_per_100m \in PaceSet
    /\ pool_length \in PoolLengthSet
    /\ swim_duration \in CalcDurationSet
    /\ cfg_idx = 1
    /\ announcements = <<>>
    /\ ann_list = <<>>
    /\ distance = 0

CalcNext ==
    \/ CalcStart
    \/ CalcAppend
    \/ CalcBreak

SchedNext ==
    \/ MainWarmup
    \/ CalcStart
    \/ CalcAppend
    \/ CalcBreak
    \/ MainCollect
    \/ MainSort

----------------------------------------------------------------------------
\* mix_audio_with_voice

\* Bounds of the mixer's inputs.
MaxMixAnns == 2
BaseLen == 6

\* 16-bit samples.
SampleMin == -32768
SampleMax == 32767

MixTimeSet == {0, 25, 50}
MixTextSet == {None, "", "Go", "25m"}
\* An announcement without a 'distance' entry.
NoDistance == -1

MixDistanceSet == {NoDistance, 25}
MapTextSet == {"Go", "25m"}
VoiceVolumeSet == {8, 10}

BaseAudioSet == {[i \in 1..BaseLen |-> 0],
                 [i \in 1..BaseLen |-> IF i % 2 = 1 THEN 5000 ELSE -5000]}

\* The file generate_multiple_speeches writes for a text.
PathOf(text) == IF text = "Go" THEN "voice_0000.mp3" ELSE "voice_0001.mp3"

\* AudioSegment.from_mp3(voice_file): the decoded clip.
FromMp3(path) ==
    IF path = "voice_0000.mp3" THEN <<1000, -2000>> ELSE <<30000, -30000, 10>>

\* voice_audio - (100 * (1 - voice_volume)): a gain of -20 dB at volume 0.8
\* (audioop.mul by 10 ** -0.9999999999999998 = 0.10000000000000005, floored)
\* and of 0 dB at volume 1.0.
GainSample(x, vol) ==
    IF vol = 10 THEN x
    ELSE IF x < 0 /\ x % 10 = 0 THEN x \div 10 - 1
    ELSE x \div 10

ApplyGain(clip, vol) == [i \in 1..Len(clip) |-> GainSample(clip[i], vol)]

\* audioop.add saturates at the sample width.
Clamp(x) == IF x > SampleMax THEN SampleMax ELSE IF x < SampleMin THEN SampleMin ELSE x

\* An overlay that lengthens the track to hold the whole clip.
OverlayVoiceExtending(audio, clip, pos) ==
    LET n == IF pos + Len(clip) > Len(audio) THEN pos + Len(clip) ELSE Len(audio)
    IN  [i \in 1..n |->
            LET under == IF i <= Len(audio) THEN audio[i] ELSE 0
            IN  IF pos < i /\ i <= pos + Len(clip) THEN Clamp(under + clip[i - pos])
                ELSE under]

\* An overlay that halves the whole track under the clip it adds.
OverlayVoiceDucking(audio, clip, pos) ==
    [i \in 1..Len(audio) |->
        IF pos < i /\ i <= pos + Len(clip)
        THEN Clamp(TruncDiv(audio[i], 2) + clip[i - pos])
        ELSE TruncDiv(audio[i], 2)]

\* result.overlay(voice_audio, position=time_ms), position >= 0: the clip is
\* cut at the end of the track, which keeps its length.
OverlayVoice(audio, clip, pos) ==
    [i \in 1..Len(audio) |->
        IF pos < i /\ i <= pos + Len(clip) THEN Clamp(audio[i] + clip[i - pos])
        ELSE audio[i]]

\* Line 157: time_ms = int(announcement['time'] * 1000)
TimeMs(time) == TruncDiv(time * 1000, TimeUnits)

\* Line 161: if not text
Falsy(text) == text = None \/ text = ""

\* The key taken from the distance whenever there is one.
LookupKeyDistanceFirst(ann) ==
    IF ann.distance # NoDistance THEN DistanceText(ann.distance) ELSE ann.text

\* Lines 160-164: the text, or the text made from the distance.
LookupKey(ann) ==
    IF Falsy(ann.text) THEN DistanceText(ann.distance) ELSE ann.text

\* Line 163 with no 'distance' entry: KeyError.
NoKey(ann) == Falsy(ann.text) /\ ann.distance = NoDistance

\* A text without a voice file ends the mixing with an error.
OnMissingRaise(st) == [st EXCEPT !.status = "KeyError"]

\* Line 167 false: nothing happens for this announcement.
OnMissing(st) == st

\* Lines 157-176: one iteration of the loop.
MixOne(st, ann, files, vol) ==
    IF st.status # "ok" THEN st
    ELSE IF NoKey(ann) THEN [st EXCEPT !.status = "KeyError"]
    ELSE IF LookupKey(ann) \in DOMAIN files
         THEN [st EXCEPT
                 !.audio = OverlayVoice(@, ApplyGain(FromMp3(files[LookupKey(ann)]), vol),
                                        TimeMs(ann.time)),
                 !.mixed = Append(@, [key |-> LookupKey(ann),
                                      position |-> TimeMs(ann.time)])]
         ELSE OnMissing(st)

RECURSIVE MixFrom(_, _, _, _, _)
MixFrom(st, anns, k, files, vol) ==
    IF k > Len(anns) THEN st
    ELSE MixFrom(MixOne(st, anns[k], files, vol), anns, k + 1, files, vol)

\* Lines 150-178
MixAudioWithVoice(base, files, anns, vol) ==
    MixFrom([status |-> "ok", audio |-> base, mixed |-> <<>>], anns, 1, files, vol)

MixIdle ==
    /\ x_pc = "idle"
    /\ base_audio = <<>> /\ voice_files_map = <<>> /\ mix_announcements = <<>>
    /\ voice_volume = 8
    /\ mix_result = [status |-> "ok", audio |-> <<>>, mixed |-> <<>>]

MixInit ==
    /\ x_pc = "input"
    /\ base_audio \in BaseAudioSet
    /\ voice_files_map \in {[t \in K |-> PathOf(t)] : K \in SUBSET MapTextSet}
    /\ mix_announcements \in
           SeqsUpTo([time : MixTimeSet, text : MixTextSet, distance : MixDistanceSet],
                    MaxMixAnns)
    /\ voice_volume \in VoiceVolumeSet
    /\ mix_result = [status |-> "ok", audio |-> <<>>, mixed |-> <<>>]

Mix ==
    /\ x_pc = "input"
    /\ mix_result' = MixAudioWithVoice(base_audio, voice_files_map,
                                       mix_announcements, voice_volume)
    /\ x_pc' = "mixed"
    /\ UNCHANGED <<base_audio, voice_files_map, mix_announcements, voice_volume,
                   notMixVars>>

MixNext == Mix

----------------------------------------------------------------------------
\* main, steps 5-7, and generate_multiple_speeches

\* Bound: the number of different announcement texts.
MaxTexts == 3

\* max_workers=10 in main's call.
MaxWorkers == 10

AllTexts == <<"Go", "25m", "50m", "75m", "100m">>

EmptyMap == <<>>

\* Line 41: filename = f"voice_{i:04d}.mp3", i counted from 0 (i < 10 here).
FileName(i) == "voice_000" \o ToString(i - 1) \o ".mp3"

Finished(i) == futures[i] \in {"ok", "failed"}

Running == {i \in DOMAIN futures : futures[i] = "running"}
Queued == {i \in DOMAIN futures : futures[i] = "queued"}

\* A failed text stored like a generated one.
CollectOutcomeIgnore(error) == "store"

\* Lines 60-64: if error: raise RuntimeError, else result[text] = output_path
CollectOutcome(error) == IF error THEN "raise" ELSE "store"

\* The with block left without waiting for the tasks.
ShutdownNoWait(fs) == TRUE

\* Line 49: leaving the with block is executor.shutdown(wait=True), which
\* returns once every submitted task, the queued ones included, has run.
ShutdownWaited(fs) == \A i \in DOMAIN fs : fs[i] \in {"ok", "failed"}

\* dict assignment result[text] = output_path
Store(map, text, path) ==
    [t \in DOMAIN map \cup {text} |-> IF t = text THEN path ELSE map[t]]

PipeIdle ==
    /\ p_pc = "idle"
    /\ voice_enabled = FALSE /\ tts_ok = TRUE /\ texts = <<>>
    /\ futures = <<>> /\ yielded = {} /\ result = EmptyMap /\ written = {}
    /\ main_voice_map = EmptyMap /\ mix_called = FALSE /\ exported = FALSE

PipeInit ==
    /\ p_pc = "voice"
    /\ voice_enabled \in BOOLEAN
    /\ tts_ok \in BOOLEAN
    /\ \E n \in 0..MaxTexts : texts = SubSeq(AllTexts, 1, n)
    /\ futures = <<>> /\ yielded = {} /\ result = EmptyMap /\ written = {}
    /\ main_voice_map = EmptyMap /\ mix_called = FALSE /\ exported = FALSE

\* generate.py lines 244-245, 282-283: voice announcements disabled.
MainVoiceDisabled ==
    /\ p_pc = "voice"
    /\ ~voice_enabled
    /\ p_pc' = "mix"
    /\ UNCHANGED <<voice_enabled, tts_ok, texts, futures, yielded, result,
                   written, main_voice_map, mix_called, exported, notPipeVars>>

\* generate.py lines 251, 276-280: get_tts_from_config raises; main returns.
MainTtsSetupFails ==
    /\ p_pc = "voice"
    /\ voice_enabled /\ ~tts_ok
    /\ p_pc' = "aborted"
    /\ UNCHANGED <<voice_enabled, tts_ok, texts, futures, yielded, result,
                   written, main_voice_map, mix_called, exported, notPipeVars>>

\* tts_service.py lines 34-54: every text is submitted to the executor.
Submit ==
    /\ p_pc = "voice"
    /\ voice_enabled /\ tts_ok
    /\ futures' = [i \in 1..Len(texts) |-> "queued"]
    /\ result' = EmptyMap
    /\ p_pc' = "collect"
    /\ UNCHANGED <<voice_enabled, tts_ok, texts, yielded, written,
                   main_voice_map, mix_called, exported, notPipeVars>>

\* A worker thread takes the oldest queued task (at most max_workers run).
WorkerStart(i) ==
    /\ p_pc \in {"collect", "unwind"}
    /\ i \in Queued
    /\ \A j \in Queued : i <= j
    /\ Cardinality(Running) < MaxWorkers
    /\ futures' = [futures EXCEPT ![i] = "running"]
    /\ UNCHANGED <<p_pc, voice_enabled, tts_ok, texts, yielded, result, written,
                   main_voice_map, mix_called, exported, notPipeVars>>

\* Lines 43-45: generate_speech wrote the file; (text, output_path, None).
WorkerSucceeds(i) ==
    /\ p_pc \in {"collect", "unwind"}
    /\ i \in Running
    /\ futures' = [futures EXCEPT ![i] = "ok"]
    /\ written' = written \cup {FileName(i)}
    /\ UNCHANGED <<p_pc, voice_enabled, tts_ok, texts, yielded, result,
                   main_voice_map, mix_called, exported, notPipeVars>>

\* Lines 46-47: generate_speech raised; (text, None, str(e)).
WorkerFails(i) ==
    /\ p_pc \in {"collect", "unwind"}
    /\ i \in Running
    /\ futures' = [futures EXCEPT ![i] = "failed"]
    /\ UNCHANGED <<p_pc, voice_enabled, tts_ok, texts, yielded, result, written,
                   main_voice_map, mix_called, exported, notPipeVars>>

\* Lines 56-58, 63-65: as_completed hands over a finished future; its path
\* is stored.
CollectStore(i) ==
    /\ p_pc = "collect"
    /\ i \in DOMAIN futures /\ i \notin yielded /\ Finished(i)
    /\ CollectOutcome(futures[i] = "failed") = "store"
    /\ yielded' = yielded \cup {i}
    /\ result' = Store(result, texts[i],
                       IF futures[i] = "ok" THEN FileName(i) ELSE None)
    /\ UNCHANGED <<p_pc, voice_enabled, tts_ok, texts, futures, written,
                   main_voice_map, mix_called, exported, notPipeVars>>

\* Lines 56-62: the future handed over carries an error: RuntimeError.
CollectRaise(i) ==
    /\ p_pc = "collect"
    /\ i \in DOMAIN futures /\ i \notin yielded /\ Finished(i)
    /\ CollectOutcome(futures[i] = "failed") = "raise"
    /\ yielded' = yielded \cup {i}
    /\ p_pc' = "unwind"
    /\ UNCHANGED <<voice_enabled, tts_ok, texts, futures, result, written,
                   main_voice_map, mix_called, exported, notPipeVars>>

\* Line 67 and generate.py line 268: every future was handed over; the
\* executor is left and the dict returned to main.
CollectReturn ==
    /\ p_pc = "collect"
    /\ yielded = DOMAIN futures
    /\ ShutdownWaited(futures)
    /\ main_voice_map' = result
    /\ p_pc' = "mix"
    /\ UNCHANGED <<voice_enabled, tts_ok, texts, futures, yielded, result,
                   written, mix_called, exported, notPipeVars>>

\* Line 49 (the with block is left by the exception: shutdown(wait=True)
\* waits for every task) and generate.py lines 276-280: main returns.
UnwindToMain ==
    /\ p_pc = "unwind"
    /\ ShutdownWaited(futures)
    /\ p_pc' = "aborted"
    /\ UNCHANGED <<voice_enabled, tts_ok, texts, futures, yielded, result,
                   written, main_voice_map, mix_called, exported, notPipeVars>>

\* generate.py lines 286-297
MainMix ==
    /\ p_pc = "mix"
    /\ mix_called' = (voice_enabled /\ main_voice_map # EmptyMap)
    /\ p_pc' = "export"
    /\ UNCHANGED <<voice_enabled, tts_ok, texts, futures, yielded, result,
                   written, main_voice_map, exported, notPipeVars>>

\* generate.py lines 300-302
MainExport ==
    /\ p_pc = "export"
    /\ exported' = TRUE
    /\ p_pc' = "done"
    /\ UNCHANGED <<voice_enabled, tts_ok, texts, futures, yielded, result,
                   written, main_voice_map, mix_called, notPipeVars>>

PipeNext ==
    \/ MainVoiceDisabled
    \/ MainTtsSetupFails
    \/ Submit
    \/ \E i \in 1..MaxTexts : WorkerStart(i)
    \/ \E i \in 1..MaxTexts : WorkerSucceeds(i)
    \/ \E i \in 1..MaxTexts : WorkerFails(i)
    \/ \E i \in 1..MaxTexts : CollectStore(i)
    \/ \E i \in 1..MaxTexts : CollectRaise(i)
    \/ CollectReturn
    \/ UnwindToMain
    \/ MainMix
    \/ MainExport

----------------------------------------------------------------------------
\* Specifications

InitMetronome == MetroInit /\ SchedIdle /\ MixIdle /\ PipeIdle

SpecMetronome == InitMetronome /\ [][MetroNext]_vars

InitSchedule == SchedInit /\ MetroIdle /\ MixIdle /\ PipeIdle

SpecSchedule == InitSchedule /\ [][SchedNext]_vars

InitCalc == CalcInit /\ MetroIdle /\ MixIdle /\ PipeIdle

\* The call runs sequentially: a step that can be taken is taken.
SpecCalc == InitCalc /\ [][CalcNext]_vars /\ WF_vars(CalcNext)

InitMix == MixInit /\ MetroIdle /\ SchedIdle /\ PipeIdle

SpecMix == InitMix /\ [][MixNext]_vars

InitPipeline == PipeInit /\ MetroIdle /\ SchedIdle /\ MixIdle

SpecPipeline == InitPipeline /\ [][PipeNext]_vars

----------------------------------------------------------------------------
\* Properties of generate_metronome

clicks == metronome.clicks

ValidMetroParams == bpm > 0 /\ beats_per_measure >= 1 /\ duration_ms >= 0

\* C1: for valid parameters the overlay positions of one generation are
\* strictly increasing (no two beats at the same position), at any tempo.
C1_StrictlyIncreasing ==
    ValidMetroParams =>
        \A i \in 1..(Len(clicks) - 1) : clicks[i].position < clicks[i + 1].position

\* C2: for valid parameters every placed beat fits completely inside the
\* track (position + click length <= track length), and a zero-length
\* duration yields no beats.
C2_BeatsFit ==
    ValidMetroParams =>
        /\ \A i \in 1..Len(clicks) : clicks[i].position + ClickMs <= metronome.len
        /\ duration_ms = 0 => clicks = <<>>

\* C3 as stated: beat index 0 is accented regardless of accent_first, any
\* other index i exactly when accent_first and i % beats_per_measure = 0.
C3_FirstAlwaysAccented ==
    ValidMetroParams =>
        \A i \in 1..Len(clicks) :
            clicks[i].accent <=>
                (i - 1 = 0 \/ (accent_first /\ (i - 1) % beats_per_measure = 0))

\* C3 amended: beat index i (index 0 included) is accented exactly when
\* accent_first is true and beats_per_measure divides i; with accent_first
\* false no beat is accented.
C3_AccentRule ==
    \A i \in 1..Len(clicks) :
        clicks[i].accent <=>
            /\ accent_first
            /\ beats_per_measure # 0
            /\ \E j \in 0..(i - 1) : j * Abs(beats_per_measure) = i - 1

C3_Witness ==
    /\ accent_first /\ beats_per_measure = 4
    /\ Len(clicks) >= 9
    /\ clicks[1].accent /\ clicks[5].accent /\ clicks[9].accent
    /\ \A i \in {2, 3, 4, 6, 7, 8} : ~clicks[i].accent

\* C4 as stated: the k-th beat is at k * floor(60000 / bpm), the interval
\* being truncated once and then added repeatedly.
C4_TruncatedIntervalDrift ==
    bpm > 0 =>
        \A i \in 1..Len(clicks) :
            clicks[i].position = (i - 1) * (MsPerMinute \div bpm)

\* C4 amended: the k-th beat is at int() of the running sum of k
\* un-truncated intervals, floor(k * 60000 / bpm) (one less exactly where
\* that quotient is whole and the float sum is rounded just below it, as
\* for beat 9 at bpm = 9), so the truncation does not accumulate; bpm = 60
\* over 4 s gives exactly the four beats 0, 1000, 2000, 3000.
C4_PositionFromRunningSum ==
    /\ bpm > 0 =>
          \A i \in 1..Len(clicks) :
              LET exact == ((i - 1) * MsPerMinute) \div bpm
                  below == /\ ((i - 1) * MsPerMinute) % bpm = 0
                           /\ <<bpm, i - 1>> \in SumsRoundedBelow
                           /\ ~FloatExact(bpm)
              IN  clicks[i].position = IF below THEN exact - 1 ELSE exact
    /\ (m_pc = "done" /\ bpm = 60 /\ duration_ms = 4000) =>
          /\ Len(clicks) = 4
          /\ \A i \in 1..4 : clicks[i].position = (i - 1) * 1000

C4_Witness ==
    /\ m_pc = "done" /\ bpm = 41 /\ duration_ms = 5000
    /\ Len(clicks) = 4
    /\ clicks[4].position = 4390
    /\ 3 * (MsPerMinute \div bpm) = 4389

\* C8: invalid parameters (bpm <= 0, beats_per_measure < 1, duration < 0)
\* end in an error before any track is allocated or any click overlaid.
C8_InvalidRejectedBeforeAllocation ==
    ~ValidMetroParams =>
        /\ metronome = NoTrack
        /\ m_pc \in {"start", "error"}

----------------------------------------------------------------------------
\* Properties of calculate_announcement_times and of main's announcement list

total_duration == swim_duration * TimeUnits

\* C5 as stated: the returned list holds, in increasing order, exactly one
\* entry for each distance d = k * interval whose time d * time_per_100m /
\* 100 is strictly below total_duration, and nothing else; each entry
\* carries laps = d / pool_length and hundreds = d / 100.
C5_ExactlyTheMultiplesBeforeEnd ==
    s_pc = "returned" =>
        LET n == Len(ann_list)
            step == interval * time_per_100m * (TimeUnits \div 100)
        IN  /\ \A k \in 1..n :
                  /\ ann_list[k].distance = k * interval
                  /\ k * step < total_duration
                  /\ ann_list[k].laps.num * pool_length
                         = k * interval * ann_list[k].laps.den
                  /\ ann_list[k].hundreds.num * 100
                         = k * interval * ann_list[k].hundreds.den
            /\ \A k \in 1..(n - 1) : ann_list[k].time < ann_list[k + 1].time
            /\ \A k \in 1..(total_duration \div step + 1) :
                  k * step < total_duration => k <= n

\* The time line 121 computes for distance d, the double product
\* d * (time_per_100m / 100), is below total_duration.
ComputedTimeBelow(d, per_100m, total) ==
    \/ CalcTime(d, per_100m) < total
    \/ CalcTime(d, per_100m) = total /\ CalcRounding(d, per_100m) < 0

\* C5 amended: the returned list holds, in increasing order, exactly one
\* entry for each distance d = k * interval whose time as the code computes
\* it, the double product d * (time_per_100m / 100), is strictly below
\* total_duration, and nothing else (where d * time_per_100m / 100 equals
\* total_duration exactly and the product is rounded just below it, the
\* entry is in the list); each entry carries that time, laps = d /
\* pool_length and hundreds = d / 100.
C5_MultiplesWithComputedTimeBeforeEnd ==
    s_pc = "returned" =>
        LET n == Len(ann_list)
        IN  /\ \A k \in 1..n :
                  /\ ann_list[k].distance = k * interval
                  /\ ann_list[k].time = CalcTime(k * interval, time_per_100m)
                  /\ ann_list[k].eps = CalcRounding(k * interval, time_per_100m)
                  /\ ComputedTimeBelow(k * interval, time_per_100m, total_duration)
                  /\ ann_list[k].laps.num * pool_length
                         = k * interval * ann_list[k].laps.den
                  /\ ann_list[k].hundreds.num * 100
                         = k * interval * ann_list[k].hundreds.den
            /\ \A k \in 1..(n - 1) : ann_list[k].time < ann_list[k + 1].time
            /\ \A k \in 1..(total_duration \div CalcTime(interval, time_per_100m) + 1) :
                  ComputedTimeBelow(k * interval, time_per_100m, total_duration)
                      => k <= n

C5_Witness ==
    /\ s_pc = "returned"
    /\ interval = 25 /\ time_per_100m = 115 /\ swim_duration = 115
    /\ Len(ann_list) = 4
    /\ ann_list[4].distance = 100
    /\ ann_list[4].time = total_duration /\ ann_list[4].eps < 0

\* C9: every announcement main hands to the mixer has
\* 0 <= time < warmup_time + swim_duration, for every configuration.
C9_TimesInsideTrack ==
    s_pc = "done" =>
        \A k \in 1..Len(announcements) :
            LET track == (warmup_time + swim_duration) * TimeUnits
            IN  /\ 0 <= announcements[k].time
                /\ \/ announcements[k].time < track
                   \/ announcements[k].time = track /\ announcements[k].eps < 0

\* The computed time grows with every iteration of the loop.
TimeGrows ==
    (s_pc = "loop" /\ s_pc' = "loop" /\ interval > 0) =>
        CalcTime(distance', time_per_100m) > CalcTime(distance, time_per_100m)

\* C14 as stated: for interval > 0 (and the positive paces of the model) the
\* loop terminates, the computed time growing with every iteration, and for
\* total_duration <= interval * time_per_100m / 100 the list returned is
\* empty.
C14_TerminatesEmptyAtExactBoundary ==
    /\ [](s_pc = "returned" /\ interval > 0
            /\ total_duration <= CalcTime(interval, time_per_100m)
          => ann_list = <<>>)
    /\ [][TimeGrows]_vars
    /\ ((s_pc = "loop" /\ interval > 0) ~> (s_pc = "returned"))

\* C14 amended: for interval > 0 the loop terminates, the computed time
\* growing with every iteration, and the list returned is empty exactly
\* when the time computed for the first distance, the double product
\* interval * (time_per_100m / 100), is not below total_duration; where
\* interval * time_per_100m / 100 equals total_duration and the product is
\* rounded just below it, the list has one entry.
C14_TerminatesEmptyWhenFirstNotBelow ==
    /\ [](s_pc = "returned" /\ interval > 0
          => /\ ann_list = <<>>
                   <=> ~ComputedTimeBelow(interval, time_per_100m, total_duration)
             /\ (/\ total_duration = CalcTime(interval, time_per_100m)
                 /\ CalcRounding(interval, time_per_100m) < 0)
                   => Len(ann_list) = 1)
    /\ [][TimeGrows]_vars
    /\ ((s_pc = "loop" /\ interval > 0) ~> (s_pc = "returned"))

C14_Witness ==
    /\ s_pc = "returned"
    /\ interval = 100 /\ time_per_100m = 115 /\ swim_duration = 115
    /\ total_duration = CalcTime(interval, time_per_100m)
    /\ Len(ann_list) = 1
    /\ distance = 200

----------------------------------------------------------------------------
\* Properties of mix_audio_with_voice

RemoveAt(seq, i) == SubSeq(seq, 1, i - 1) \o SubSeq(seq, i + 1, Len(seq))

RECURSIVE MixedByTextOnly(_, _)
MixedByTextOnly(anns, files) ==
    IF anns = <<>> THEN <<>>
    ELSE LET a == anns[Len(anns)]
             before == MixedByTextOnly(SubSeq(anns, 1, Len(anns) - 1), files)
         IN  IF a.text # None /\ a.text # "" /\ a.text \in DOMAIN files
             THEN Append(before, [key |-> a.text, position |-> TimeMs(a.time)])
             ELSE before

\* The overlays the code makes: the key is the text when it is non-empty and
\* the distance followed by the metre sign otherwise.
RECURSIVE MixedByTextOrDistance(_, _)
MixedByTextOrDistance(anns, files) ==
    IF anns = <<>> THEN <<>>
    ELSE LET a == anns[Len(anns)]
             before == MixedByTextOrDistance(SubSeq(anns, 1, Len(anns) - 1), files)
             key == IF a.text # None /\ a.text # "" THEN a.text
                    ELSE ToString(a.distance) \o "m"
         IN  IF key \in DOMAIN files
             THEN Append(before, [key |-> key, position |-> TimeMs(a.time)])
             ELSE before

\* C10 as stated: an announcement whose text is empty or absent is never
\* mixed; only announcements with a non-empty text are overlaid, under that
\* text as the only key.
C10_EmptyTextNeverMixed ==
    (x_pc = "mixed" /\ mix_result.status = "ok") =>
        mix_result.mixed = MixedByTextOnly(mix_announcements, voice_files_map)

\* C10 amended: an announcement with a non-empty text is looked up under
\* that text only; one whose text is empty or absent is looked up under the
\* text made from its distance and is mixed when the map has that key (and
\* the call fails with KeyError when it has no distance either).
C10_FallbackKeyFromDistance ==
    x_pc = "mixed" =>
        /\ mix_result.status = "KeyError"
              <=> \E i \in 1..Len(mix_announcements) :
                     /\ mix_announcements[i].text \in {None, ""}
                     /\ mix_announcements[i].distance = NoDistance
        /\ mix_result.status = "ok" =>
              mix_result.mixed =
                  MixedByTextOrDistance(mix_announcements, voice_files_map)

C10_Witness ==
    /\ x_pc = "mixed"
    /\ mix_result.status = "ok"
    /\ Len(mix_announcements) = 1
    /\ mix_announcements[1].text = None
    /\ mix_announcements[1].distance = 25
    /\ mix_result.mixed = <<[key |-> "25m", position |-> TimeMs(mix_announcements[1].time)]>>
    /\ mix_result.audio # base_audio

\* The clip an overlay of the mixer's log added, after the gain.
MixedClip(m) == ApplyGain(FromMp3(voice_files_map[m.key]), voice_volume)

\* C11: a voice clip that starts inside the base buffer and extends past its
\* end is cut at the end and raises no error: after any sequence of overlays
\* the result has exactly the length of base_audio, every sample before
\* the offset of every overlay made is the base sample, and a single
\* overlay adds the part of its clip that fits, saturating.
C11_OverlayClippedToBuffer ==
    x_pc = "mixed" =>
        /\ (\A k \in 1..Len(mix_announcements) : ~NoKey(mix_announcements[k]))
              => mix_result.status = "ok"
        /\ mix_result.status = "ok" =>
              /\ Len(mix_result.audio) = Len(base_audio)
              /\ \A i \in 1..Len(base_audio) :
                    (\A k \in 1..Len(mix_result.mixed) :
                        i <= mix_result.mixed[k].position)
                    => mix_result.audio[i] = base_audio[i]
              /\ Len(mix_result.mixed) = 1 =>
                    LET m == mix_result.mixed[1]
                    IN  \A i \in 1..Len(base_audio) :
                           (m.position < i /\ i <= m.position + Len(MixedClip(m)))
                           => mix_result.audio[i] =
                                  Clamp(base_audio[i] + MixedClip(m)[i - m.position])

C11_Witness ==
    /\ x_pc = "mixed"
    /\ mix_result.status = "ok"
    /\ Len(mix_result.mixed) = 2
    /\ mix_result.mixed[2].position < Len(base_audio)
    /\ mix_result.mixed[2].position + Len(MixedClip(mix_result.mixed[2]))
           > Len(base_audio)
    /\ mix_result.mixed[1].position = 0
    /\ Len(mix_result.audio) = Len(base_audio)
    /\ mix_result.audio[Len(base_audio)] # base_audio[Len(base_audio)]

\* The announcement gets a clip overlaid: line 167 is true for it.
HasClip(a) == ~NoKey(a) /\ LookupKey(a) \in DOMAIN voice_files_map

\* The window of an announcement's clip: [start, end) in ms.
WindowStart(a) == TimeMs(a.time)

WindowEnd(a) == TimeMs(a.time) + Len(FromMp3(voice_files_map[LookupKey(a)]))

WindowsDisjoint ==
    \A i, j \in 1..Len(mix_announcements) :
        (i < j /\ HasClip(mix_announcements[i]) /\ HasClip(mix_announcements[j]))
        => \/ WindowEnd(mix_announcements[i]) <= WindowStart(mix_announcements[j])
           \/ WindowEnd(mix_announcements[j]) <= WindowStart(mix_announcements[i])

Orders(n) ==
    {p \in [1..n -> 1..n] : \A i, j \in 1..n : p[i] = p[j] => i = j}

Permuted(seq, p) == [k \in 1..Len(seq) |-> seq[p[k]]]

\* C12: when the time windows of the clips of the announcements do not
\* intersect, mix_audio_with_voice gives the same outcome and the identical
\* final buffer for every permutation of the announcement list.
C12_OrderIrrelevantWhenDisjoint ==
    (x_pc = "mixed" /\ WindowsDisjoint) =>
        \A p \in Orders(Len(mix_announcements)) :
            LET r == MixAudioWithVoice(base_audio, voice_files_map,
                                       Permuted(mix_announcements, p), voice_volume)
            IN  /\ r.status = mix_result.status
                /\ r.status = "ok" => r.audio = mix_result.audio

C12_Witness ==
    /\ x_pc = "mixed"
    /\ mix_result.status = "ok"
    /\ WindowsDisjoint
    /\ Len(mix_announcements) = 2
    /\ HasClip(mix_announcements[1]) /\ HasClip(mix_announcements[2])
    /\ WindowStart(mix_announcements[2]) < WindowStart(mix_announcements[1])
    /\ LookupKey(mix_announcements[1]) # LookupKey(mix_announcements[2])
    /\ mix_result.audio[WindowStart(mix_announcements[1]) + 1]
           # base_audio[WindowStart(mix_announcements[1]) + 1]
    /\ mix_result.audio[WindowStart(mix_announcements[2]) + 1]
           # base_audio[WindowStart(mix_announcements[2]) + 1]
    /\ mix_result.audio =
           MixAudioWithVoice(base_audio, voice_files_map,
                             <<mix_announcements[2], mix_announcements[1]>>,
                             voice_volume).audio

----------------------------------------------------------------------------
\* Properties of the voice-generation pipeline

AnyFailed == \E i \in DOMAIN futures : futures[i] = "failed"

====
